---- MODULE Spec2Model ----
(***************************************************************************)
(* Model of scripts/realtime_inference.py: the scan-conversion functions   *)
(* (scan_conversion_inverse, scan_interpolation_weights, scan_convert,    *)
(* curvilinear_mask), the per-frame functions (preprocess_input,           *)
(* postprocess_masks) and the message loop of run_client.                  *)
(*                                                                         *)
(* Conventions.  A 2-D array is a function over 0..h-1 of functions over   *)
(* 0..w-1 (numpy's row-major indexing); a flattened array is a function    *)
(* over 0..n-1.  Angles are multiples of 90 degrees, so that cos and sin   *)
(* are exact integers, and np.linspace is taken on inputs whose step is an *)
(* integer; all coordinates of the sample grid are then integers.  A       *)
(* fractional value (a barycentric weight, an interpolated pixel) is a     *)
(* record [num, den] with den > 0.                                         *)
(***************************************************************************)
EXTENDS Integers, Sequences, FiniteSets, TLC

\* ------------------------------------------------------------------ bounds

\* The largest curvilinear_image_size of the configs the geometry functions are
\* applied to, and the largest num_lines and num_samples_along_lines.
MaxImageSize == 20
MaxLines == 2
MaxSamples == 3
\* The curvilinear_image_size of the configs run_client is started with, the
\* model's input size (--image-size), and the number of messages received.
ClientImageSize == 10
ModelImageSize == 2
MaxMessages == 3

\* The value None of Python.
None == <<>>

\* -------------------------------------------------------------- arithmetic

Min(a, b) == IF a < b THEN a ELSE b

Max(a, b) == IF a < b THEN b ELSE a

\* cos and sin of a multiple of 90 degrees (np.cos(np.deg2rad(a))).
CosDeg(a) ==
    CASE a % 360 = 0 -> 1
      [] a % 360 = 90 -> 0
      [] a % 360 = 180 -> -1
      [] a % 360 = 270 -> 0

SinDeg(a) ==
    CASE a % 360 = 0 -> 0
      [] a % 360 = 90 -> 1
      [] a % 360 = 180 -> 0
      [] a % 360 = 270 -> -1

\* np.linspace(a, b, n) where the step (b - a) / (n - 1) is an integer.
LinspaceExact(a, b, n) == n = 1 \/ (b - a) % (n - 1) = 0

Linspace(a, b, n) ==
    [i \in 0 .. n - 1 |-> IF n = 1 THEN a ELSE a + i * ((b - a) \div (n - 1))]

\* ----------------------------------------------------------- configuration

RequiredKeys ==
    {"angle_min_degrees", "angle_max_degrees", "radius_start_pixels",
     "radius_end_pixels", "num_lines", "num_samples_along_lines",
     "center_coordinate_pixel", "curvilinear_image_size"}

\* ------------------------------------------------ scan_conversion_inverse

KeysOf_scan_conversion_inverse ==
    {"angle_min_degrees", "angle_max_degrees", "radius_start_pixels",
     "radius_end_pixels", "num_samples_along_lines", "num_lines",
     "center_coordinate_pixel"}

\* theta, r = np.meshgrid(linspace(angles, num_samples), linspace(radii, num_lines)):
\* shape (num_lines, num_samples), theta[i][j] = angle j, r[i][j] = radius i.
scan_conversion_inverse(cfg) ==
    LET theta == Linspace(cfg.angle_min_degrees, cfg.angle_max_degrees,
                          cfg.num_samples_along_lines)
        r == Linspace(cfg.radius_start_pixels, cfg.radius_end_pixels, cfg.num_lines)
        rows == 0 .. cfg.num_lines - 1
        cols == 0 .. cfg.num_samples_along_lines - 1
    IN  [x_cart |-> [i \in rows |-> [j \in cols |->
                        r[i] * CosDeg(theta[j]) + cfg.center_coordinate_pixel[1]]],
         y_cart |-> [i \in rows |-> [j \in cols |->
                        r[i] * SinDeg(theta[j]) + cfg.center_coordinate_pixel[2]]]]

\* ndarray.flatten() of a 2-D array with h rows of w columns (row-major).
Flatten(a, h, w) == [k \in 0 .. h * w - 1 |-> a[k \div w][k % w]]

\* ---------------------------------------------- scipy.spatial.Delaunay

\* Twice the signed area of the triangle a, b, c (points are <<x, y>>).
Orient(a, b, c) ==
    (b[1] - a[1]) * (c[2] - a[2]) - (b[2] - a[2]) * (c[1] - a[1])

\* The in-circle determinant: positive iff d is strictly inside the circle
\* through a, b, c when these are counter-clockwise.
InCircleDet(a, b, c, d) ==
    LET adx == a[1] - d[1]
        ady == a[2] - d[2]
        bdx == b[1] - d[1]
        bdy == b[2] - d[2]
        cdx == c[1] - d[1]
        cdy == c[2] - d[2]
    IN  (adx * adx + ady * ady) * (bdx * cdy - cdx * bdy)
        - (bdx * bdx + bdy * bdy) * (adx * cdy - cdx * ady)
        + (cdx * cdx + cdy * cdy) * (adx * bdy - bdx * ady)

\* t comes before u in the lexicographic order of index triples.
SimplexBefore(t, u) ==
    \/ t[1] < u[1]
    \/ t[1] = u[1] /\ t[2] < u[2]
    \/ t[1] = u[1] /\ t[2] = u[2] /\ t[3] < u[3]

\* The simplices a Delaunay triangulation of the points pts (a function over
\* 0..n-1) can hold: the triangles of non-zero area whose circumcircle has no
\* point strictly inside.  Co-circular points leave the triangulation a choice;
\* every triangle of every choice is in this set, and the set covers exactly
\* the convex hull of the points.  The set is empty when the points do not
\* span the plane, where Delaunay raises QhullError.
DelaunayTriangles(pts, n) ==
    {t \in (0 .. n - 1) \X (0 .. n - 1) \X (0 .. n - 1) :
        /\ t[1] < t[2]
        /\ t[2] < t[3]
        /\ Orient(pts[t[1]], pts[t[2]], pts[t[3]]) # 0
        /\ \A d \in 0 .. n - 1 :
              InCircleDet(pts[t[1]], pts[t[2]], pts[t[3]], pts[d])
                * Orient(pts[t[1]], pts[t[2]], pts[t[3]]) <= 0}

\* The triangles of T in lexicographic order.
RECURSIVE SortedSimplices(_)
SortedSimplices(T) ==
    IF T = {}
    THEN <<>>
    ELSE LET first == CHOOSE t \in T : \A u \in T : ~SimplexBefore(u, t)
         IN  <<first>> \o SortedSimplices(T \ {first})

\* triangulation.simplices: the array of the simplices, row i of the array at
\* position i + 1 of the sequence (here in lexicographic order; the order is
\* Qhull's).
DelaunaySimplices(pts, n) == SortedSimplices(DelaunayTriangles(pts, n))

\* triangulation.transform[i] applied to p: the barycentric coordinates of p
\* for the first two vertices of the simplex t, b = T^-1 (p - r) with r the
\* third vertex, as the fractions b[1] / den and b[2] / den.
\*     X = transform[simplices, :2];  Y = p - transform[simplices, 2]
\*     b = np.einsum('ijk,ik->ij', X, Y)
TransformCoords(pts, t, p) ==
    LET a == pts[t[1]]
        b == pts[t[2]]
        c == pts[t[3]]
        D == (a[1] - c[1]) * (b[2] - c[2]) - (b[1] - c[1]) * (a[2] - c[2])
        n0 == (b[2] - c[2]) * (p[1] - c[1]) - (b[1] - c[1]) * (p[2] - c[2])
        n1 == (a[1] - c[1]) * (p[2] - c[2]) - (a[2] - c[2]) * (p[1] - c[1])
        s == IF D < 0 THEN -1 ELSE 1
    IN  [b |-> <<s * n0, s * n1>>, den |-> s * D]

\* p lies in the closed triangle t.
SimplexContains(pts, t, p) ==
    LET y == TransformCoords(pts, t, p)
    IN  y.b[1] >= 0 /\ y.b[2] >= 0 /\ y.den - y.b[1] - y.b[2] >= 0

\* triangulation.find_simplex(p): the index of a simplex that contains p, or
\* -1 when p is outside the convex hull of the points.
find_simplex(pts, simplices, p) ==
    IF \E i \in 0 .. Len(simplices) - 1 : SimplexContains(pts, simplices[i + 1], p)
    THEN CHOOSE i \in 0 .. Len(simplices) - 1 : SimplexContains(pts, simplices[i + 1], p)
    ELSE -1

\* triangulation.simplices[i] with numpy's negative indices: -1 is the last row.
NumpyRow(simplices, i) ==
    IF i < 0 THEN simplices[Len(simplices) + i + 1] ELSE simplices[i + 1]

\* --------------------------------------------- scan_interpolation_weights

KeysOf_scan_interpolation_weights ==
    {"curvilinear_image_size"} \cup KeysOf_scan_conversion_inverse

\* The flattened sample points, (x_cart.flatten(), y_cart.flatten()).T.
SamplePoints(x_cart, y_cart, num_lines, num_samples) ==
    LET xs == Flatten(x_cart, num_lines, num_samples)
        ys == Flatten(y_cart, num_lines, num_samples)
    IN  [k \in 0 .. num_lines * num_samples - 1 |-> <<xs[k], ys[k]>>]

\* Pixel q of the flattened output grid: np.mgrid[0:size, 0:size] flattened,
\* grid_x the row and grid_y the column.
GridPoint(q, image_size) == <<q \div image_size, q % image_size>>

PixelIndices(image_size) ==
    IF image_size > 0 THEN 0 .. image_size * image_size - 1 ELSE {}

\* Mutant: the third weight as the sum of the two, np.c_[b, b.sum(axis=1)].
WeightsRowSum(y) == [num |-> <<y.b[1], y.b[2], y.b[1] + y.b[2]>>, den |-> y.den]

\* weights = np.c_[b, 1 - b.sum(axis=1)]: the two coordinates and the third as
\* one minus their sum.
WeightsRow(y) == [num |-> <<y.b[1], y.b[2], y.den - y.b[1] - y.b[2]>>, den |-> y.den]

scan_interpolation_weights(cfg) ==
    LET image_size == cfg.curvilinear_image_size
        grid == scan_conversion_inverse(cfg)
        n == cfg.num_lines * cfg.num_samples_along_lines
        pts == SamplePoints(grid.x_cart, grid.y_cart, cfg.num_lines,
                            cfg.num_samples_along_lines)
        triangulation == DelaunaySimplices(pts, n)
        simplices == [q \in PixelIndices(image_size) |->
                    find_simplex(pts, triangulation, GridPoint(q, image_size))]
        vertices == [q \in PixelIndices(image_size) |-> NumpyRow(triangulation, simplices[q])]
        b == [q \in PixelIndices(image_size) |->
                TransformCoords(pts, vertices[q], GridPoint(q, image_size))]
        weights == [q \in PixelIndices(image_size) |-> WeightsRow(b[q])]
    IN  IF triangulation = <<>>
        THEN [ok |-> FALSE, error |-> "QhullError"]
        ELSE [ok |-> TRUE, vertices |-> vertices, weights |-> weights]

\* ------------------------------------------------------------ scan_convert

\* The shape of a 2-D array.
Rows(a) == Cardinality(DOMAIN a)

Cols(a) == Cardinality(DOMAIN a[0])

\* z = linear_data.flatten(); zi = einsum(np.take(z, vertices), weights);
\* zi.reshape(image_size, image_size).  np.take raises IndexError for a vertex
\* index that is not below len(z); nothing compares the shape of linear_data
\* with the grid.
scan_convert(linear_data, cfg, vertices, weights) ==
    LET z == Flatten(linear_data, Rows(linear_data), Cols(linear_data))
        len == Rows(linear_data) * Cols(linear_data)
        image_size == cfg.curvilinear_image_size
        zi == [q \in DOMAIN vertices |->
                 [num |-> z[vertices[q][1]] * weights[q].num[1]
                          + z[vertices[q][2]] * weights[q].num[2]
                          + z[vertices[q][3]] * weights[q].num[3],
                  den |-> weights[q].den]]
    IN  IF \E q \in DOMAIN vertices : \E i \in 1 .. 3 : vertices[q][i] >= len
        THEN [ok |-> FALSE, error |-> "IndexError"]
        ELSE [ok |-> TRUE,
              image |-> [r \in 0 .. image_size - 1 |-> [c \in 0 .. image_size - 1 |->
                            zi[r * image_size + c]]]]

\* -------------------------------------------------------- curvilinear_mask

KeysOf_curvilinear_mask ==
    {"angle_min_degrees", "angle_max_degrees", "center_coordinate_pixel",
     "radius_start_pixels", "radius_end_pixels", "curvilinear_image_size"}

\* cv2.ellipse(img, center, (radius, radius), 0.0, angle1, angle2, 1, -1): the
\* filled sector of the disc between the two angles, in OpenCV's image
\* coordinates (x the column, y the row, a point at angle a in the direction
\* (cos a, sin a)); the angles are swapped when angle1 > angle2.  Rasterised
\* ideally: a pixel is painted iff its centre lies in the closed sector.
InEllipseSector(row, col, center_rows_px, center_cols_px, radius, angle1, angle2) ==
    LET dx == col - center_cols_px
        dy == row - center_rows_px
        a1 == Min(angle1, angle2)
        a2 == Max(angle1, angle2)
        u1 == <<CosDeg(a1), SinDeg(a1)>>
        u2 == <<CosDeg(a2), SinDeg(a2)>>
        after1 == u1[1] * dy - u1[2] * dx
        before2 == dx * u2[2] - dy * u2[1]
    IN  /\ dx * dx + dy * dy <= radius * radius
        /\ CASE a2 - a1 >= 360 -> TRUE
             [] a2 - a1 = 0 -> after1 = 0 /\ u1[1] * dx + u1[2] * dy >= 0
             [] a2 - a1 \in 1 .. 180 -> after1 >= 0 /\ before2 >= 0
             [] OTHER -> ~(after1 < 0 /\ before2 < 0)

\* cv2.circle(img, center, radius, 0, -1): the filled disc.
InCircle(row, col, center_rows_px, center_cols_px, radius) ==
    LET dx == col - center_cols_px
        dy == row - center_rows_px
    IN  dx * dx + dy * dy <= radius * radius

\* Mutant: the product rounded, int(0.1 * image_size + 0.5).
erosion_size_rounded(image_size) == (image_size + 5) \div 10

\* int(0.1 * image_size): the product truncated toward zero.
erosion_size_of(image_size) == image_size \div 10

\* cv2.erode(mask, np.ones((k, k)), iterations=1): the minimum over the k x k
\* window anchored at (k // 2, k // 2); pixels outside the image do not count
\* (the default border value of an erosion).  A 1 x 1 element copies the
\* image, and an empty element (k = 0) is replaced by OpenCV's 3 x 3 rectangle.
Erode(mask, image_size, k) ==
    LET side == IF k = 0 THEN 3 ELSE k
        anchor == side \div 2
        window == (0 - anchor) .. (side - 1 - anchor)
        inside == 0 .. image_size - 1
    IN  [r \in inside |-> [c \in inside |->
           IF \E dr \in window : \E dc \in window :
                 /\ r + dr \in inside
                 /\ c + dc \in inside
                 /\ mask[r + dr][c + dc] = 0
           THEN 0
           ELSE 1]]

\* Mutant: only the first row and the first column are set to zero.
RepaintFirstBorders(mask, image_size) ==
    [r \in 0 .. image_size - 1 |-> [c \in 0 .. image_size - 1 |->
        IF r = 0 \/ c = 0 THEN 0 ELSE mask[r][c]]]

\* Lines 151-154: the outermost rows and columns set to zero.
RepaintBorders(mask, image_size) ==
    [r \in 0 .. image_size - 1 |-> [c \in 0 .. image_size - 1 |->
        IF r = 0 \/ c = 0 \/ r = image_size - 1 \/ c = image_size - 1
        THEN 0
        ELSE mask[r][c]]]

\* np.zeros((image_size, image_size)) raises ValueError for a negative size,
\* and mask_array[0, :] raises IndexError for size 0.
curvilinear_mask(cfg) ==
    LET angle1 == 90 + cfg.angle_min_degrees
        angle2 == 90 + cfg.angle_max_degrees
        center_rows_px == cfg.center_coordinate_pixel[1]
        center_cols_px == cfg.center_coordinate_pixel[2]
        radius1 == cfg.radius_start_pixels
        radius2 == cfg.radius_end_pixels
        image_size == cfg.curvilinear_image_size
        drawn == [r \in 0 .. image_size - 1 |-> [c \in 0 .. image_size - 1 |->
                    IF /\ InEllipseSector(r, c, center_rows_px, center_cols_px,
                                          radius2, angle1, angle2)
                       /\ ~InCircle(r, c, center_rows_px, center_cols_px, radius1)
                    THEN 1
                    ELSE 0]]
        erosion_size == erosion_size_of(image_size)
    IN  IF image_size <= 0
        THEN [ok |-> FALSE,
              error |-> IF image_size < 0 THEN "ValueError" ELSE "IndexError"]
        ELSE [ok |-> TRUE,
              erosion_size |-> erosion_size,
              mask_array |-> Erode(RepaintBorders(drawn, image_size), image_size,
                                   erosion_size)]

\* ------------------------------------------------ configuration load

\* Lines 278, 287 and 288 of run_client on a config that has every key: the
\* sample grid, the interpolation table, the mask.  Nothing validates the
\* values; what fails is what the libraries reject.
build_tables(cfg) ==
    LET grid == scan_conversion_inverse(cfg)
        table == scan_interpolation_weights(cfg)
        mask == curvilinear_mask(cfg)
    IN  IF ~table.ok
        THEN [ok |-> FALSE, error |-> table.error]
        ELSE IF ~mask.ok
        THEN [ok |-> FALSE, error |-> mask.error]
        ELSE [ok |-> TRUE,
              scanconversion_config |-> cfg,
              x_cart |-> grid.x_cart,
              y_cart |-> grid.y_cart,
              vertices |-> table.vertices,
              weights |-> table.weights,
              mask_array |-> mask.mask_array,
              erosion_size |-> mask.erosion_size]

\* Mutant: the table and the mask are built when the first frame needs them, so
\* a key only they read is not missed by the load.
load_scan_conversion_deferred(cfg) ==
    IF ~(KeysOf_scan_conversion_inverse \subseteq DOMAIN cfg)
    THEN [ok |-> FALSE, error |-> "KeyError"]
    ELSE IF ~(KeysOf_scan_interpolation_weights \subseteq DOMAIN cfg)
    THEN [ok |-> TRUE,
          scanconversion_config |-> cfg,
          x_cart |-> scan_conversion_inverse(cfg).x_cart,
          y_cart |-> scan_conversion_inverse(cfg).y_cart,
          vertices |-> None,
          weights |-> None,
          mask_array |-> None,
          erosion_size |-> None]
    ELSE build_tables(cfg)

\* Lines 274-292 of run_client for a loaded config dict.  A key the dict lacks
\* raises KeyError where the first of the three functions indexes it.
load_scan_conversion(cfg) ==
    IF ~(KeysOf_scan_conversion_inverse \subseteq DOMAIN cfg)
    THEN [ok |-> FALSE, error |-> "KeyError"]
    ELSE IF ~(KeysOf_scan_interpolation_weights \subseteq DOMAIN cfg)
    THEN [ok |-> FALSE, error |-> "KeyError"]
    ELSE IF ~(KeysOf_curvilinear_mask \subseteq DOMAIN cfg)
    THEN [ok |-> FALSE, error |-> "KeyError"]
    ELSE build_tables(cfg)

\* ------------------------------------------------------ per-frame functions

\* A 2-D array of h rows and w columns holding v everywhere.
Uniform(h, w, v) == [r \in 0 .. h - 1 |-> [c \in 0 .. w - 1 |-> v]]

\* scipy.ndimage.map_coordinates(img, [x_cart, y_cart], order=1,
\* mode='constant', cval=0.0) at integer coordinates: linear interpolation at a
\* grid node is the node's value, and a coordinate outside the image gives cval.
map_coordinates(img, xs, ys) ==
    [i \in DOMAIN xs |-> [j \in DOMAIN xs[i] |->
        IF xs[i][j] \in DOMAIN img /\ ys[i][j] \in DOMAIN img[0]
        THEN img[xs[i][j]][ys[i][j]]
        ELSE 0]]

\* F.interpolate(..., size=(h, w), mode="nearest"): output (i, j) takes input
\* (floor(i * in_h / h), floor(j * in_w / w)).
InterpolateNearest(a, h, w) ==
    [i \in 0 .. h - 1 |-> [j \in 0 .. w - 1 |->
        a[(i * Rows(a)) \div h][(j * Cols(a)) \div w]]]

\* F.interpolate(..., (h, w), mode="bilinear", align_corners=False).  Resizing
\* to the same shape returns the input; the arrays resized to another shape
\* here are uniform, and a bilinear resize of a uniform array is uniform.
InterpolateBilinear(a, h, w) ==
    IF Rows(a) = h /\ Cols(a) = w THEN a ELSE Uniform(h, w, a[0][0])

\* preprocess_input, one of the three equal channels of its result, each value
\* the fraction v / 255.  With a config, line 168 rebinds image to a new
\* zero array before line 169 resamples image[0].
preprocess_input(image, image_size, cfg, xs, ys) ==
    LET resampled ==
            IF cfg # None
            THEN map_coordinates(Uniform(cfg.num_lines, cfg.num_samples_along_lines, 0),
                                 xs, ys)
            ELSE image
        scaled == [i \in DOMAIN resampled |-> [j \in DOMAIN resampled[i] |->
                      [num |-> resampled[i][j], den |-> 255]]]
    IN  InterpolateNearest(scaled, image_size, image_size)

\* torch.sigmoid of a saturating logit: 0.0 below zero, 1.0 above.
Sigmoid(a) == [i \in DOMAIN a |-> [j \in DOMAIN a[i] |-> IF a[i][j] < 0 THEN 0 ELSE 1]]

\* values.astype(np.uint8) of fractions in the range of a byte.
ToUint8(values) ==
    [i \in DOMAIN values |-> [j \in DOMAIN values[i] |->
        (values[i][j].num \div values[i][j].den) % 256]]

\* Mutant: the product is written into the mask, np.multiply(masks, mask_array,
\* out=mask_array).
ApplyMaskInPlace(values, mask) ==
    [masks |-> [i \in DOMAIN values |-> [j \in DOMAIN values[i] |->
                   [num |-> values[i][j].num * mask[i][j], den |-> values[i][j].den]]],
     mask_array |-> [i \in DOMAIN values |-> [j \in DOMAIN values[i] |->
                        (values[i][j].num * mask[i][j]) \div values[i][j].den]]]

\* Line 203, masks = masks * mask_array: a new array; the mask is read only.
ApplyMask(values, mask) ==
    [masks |-> [i \in DOMAIN values |-> [j \in DOMAIN values[i] |->
                   [num |-> values[i][j].num * mask[i][j], den |-> values[i][j].den]]],
     mask_array |-> mask]

\* postprocess_masks.  The result names mask_array, which it was handed by
\* reference, with the value it holds on return.
postprocess_masks(low_res, image_size, original_size, cfg, verts, wts, mask) ==
    LET probs == Sigmoid(InterpolateBilinear(low_res, image_size, image_size))
        linear == InterpolateBilinear(probs, cfg.num_lines, cfg.num_samples_along_lines)
        converted == scan_convert(linear, cfg, verts, wts)
        plain == [i \in DOMAIN probs |-> [j \in DOMAIN probs[i] |->
                     [num |-> probs[i][j], den |-> 1]]]
        resized == InterpolateBilinear(IF cfg # None THEN converted.image ELSE plain,
                                       original_size[1], original_size[2])
        times255 == [i \in DOMAIN resized |-> [j \in DOMAIN resized[i] |->
                        [num |-> resized[i][j].num * 255, den |-> resized[i][j].den]]]
        masked == ApplyMask(times255, mask)
    IN  IF cfg # None /\ ~converted.ok
        THEN [ok |-> FALSE, error |-> converted.error, mask_array |-> mask]
        ELSE IF mask # None /\ <<Rows(mask), Cols(mask)>> # original_size
        THEN [ok |-> FALSE, error |-> "ValueError", mask_array |-> mask]
        ELSE IF mask # None
        THEN [ok |-> TRUE, masks |-> ToUint8(masked.masks),
              mask_array |-> masked.mask_array]
        ELSE [ok |-> TRUE, masks |-> ToUint8(times255), mask_array |-> mask]

\* ------------------------------------------------------------------ inputs

Config(amin, amax, r1, r2, nl, ns, center, size) ==
    [angle_min_degrees |-> amin, angle_max_degrees |-> amax,
     radius_start_pixels |-> r1, radius_end_pixels |-> r2,
     num_lines |-> nl, num_samples_along_lines |-> ns,
     center_coordinate_pixel |-> center, curvilinear_image_size |-> size]

\* The config without one of its keys.
Without(cfg, key) == [k \in DOMAIN cfg \ {key} |-> cfg[k]]

\* The configs of the model: the grid's angles and radii are integers.
Representable(cfg) ==
    /\ LinspaceExact(cfg.angle_min_degrees \div 90, cfg.angle_max_degrees \div 90,
                     cfg.num_samples_along_lines)
    /\ LinspaceExact(cfg.radius_start_pixels, cfg.radius_end_pixels, cfg.num_lines)

AngleValues == {-90, 0, 90}

\* The configs the geometry functions are applied to: valid ones and ones that
\* break the stated invariant of a ScanGeometryConfig.
GeomConfigs ==
    {cfg \in {Config(amin, amax, r[1], r[2], nl, ns,
                     <<apex * (size \div 2), size \div 2>>, size) :
                 amin \in AngleValues, amax \in AngleValues,
                 r \in {<<2, 6>>, <<6, 2>>, <<6, 6>>},
                 nl \in 1 .. MaxLines, ns \in 2 .. MaxSamples,
                 apex \in {0, 1},
                 size \in {0, MaxImageSize - 12, MaxImageSize - 4, MaxImageSize}} :
        Representable(cfg)}

ClientBaseConfig ==
    Config(-90, 90, 2, 4, 2, 3, <<ClientImageSize \div 2, ClientImageSize \div 2>>,
           ClientImageSize)

\* What run_client is started with: no --scanconversion-config (None), or the
\* dict yaml.safe_load returns: complete (valid or not), or lacking a key.
ClientConfigFiles ==
    {None}
    \cup {Config(a[1], a[2], r[1], r[2], 2, 3,
                 <<ClientImageSize \div 2, ClientImageSize \div 2>>, size) :
             a \in {<<-90, 90>>, <<90, -90>>, <<0, 0>>},
             r \in {<<2, 4>>, <<4, 2>>},
             size \in {0, ClientImageSize}}
    \cup {Without(ClientBaseConfig, key) : key \in RequiredKeys}

\* --input-device-name and --output-device-name (their defaults).
InputDeviceName == "Image_Image"

OutputDeviceName == "Prediction"

\* "Image" in device_name, and device_name.replace("Image", "Pred"), on the
\* device names of the model.
ContainsImage(name) == name \in {"Image_Image", "ImageToReference"}

ReplaceImagePred(name) ==
    CASE name = "Image_Image" -> "Pred_Pred"
      [] name = "ImageToReference" -> "PredToReference"
      [] OTHER -> name

\* The frames received: message.image[0], of the size of the curvilinear image
\* or not.
Frames ==
    {Uniform(ClientImageSize, ClientImageSize, 0),
     Uniform(ClientImageSize, ClientImageSize, 255),
     Uniform(ClientImageSize + 1, ClientImageSize + 1, 255)}

\* The messages input_client.get_latest_messages() can return: an image
\* message has an image, a transform message a matrix.
Messages ==
    {[message_type |-> "IMAGE", device_name |-> InputDeviceName, image |-> f] :
        f \in Frames}
    \cup {[message_type |-> "TRANSFORM", device_name |-> n, matrix |-> "matrix"] :
             n \in {"Image_Image", "ImageToReference", "ProbeToReference"}}

\* The lists of at most n messages.
MessageLists(n) == UNION {[1 .. k -> Messages] : k \in 0 .. n}

\* What the network returns for low_res_masks: saturating logits, all of one
\* sign.
ModelOutputs == {Uniform(ModelImageSize, ModelImageSize, v) : v \in {-1, 1}}

\* The arrays scan_convert is called with for a grid of nl x ns samples: of the
\* grid's shape, transposed, with a row more, with a row less; uniform or the
\* ramp 0, 1, 2, ...
LinearInputs(nl, ns) ==
    {[r \in 0 .. sh[1] - 1 |-> [c \in 0 .. sh[2] - 1 |->
         IF v = -1 THEN r * sh[2] + c ELSE v]] :
        sh \in {<<nl, ns>>, <<ns, nl>>, <<nl + 1, ns>>} \cup
               (IF nl > 1 THEN {<<nl - 1, ns>>} ELSE {}),
        v \in {-1, 0, 7}}

\* ------------------------------------------------------------------- state

VARIABLES
    config_file,            \* what --scanconversion-config loads to, or None
    pc,                     \* where run_client (or the caller of the functions) is
    error,                  \* the exception that ended it, or None
    scanconversion_config,  \* run_client's locals, lines 274-292
    x_cart,
    y_cart,
    vertices,
    weights,
    mask_array,
    erosion_size,           \* curvilinear_mask's local, line 157
    messages,               \* the rest of the list the for loop iterates
    orig_img_size,          \* the locals of the loop body
    image,
    low_res_masks,
    masks,
    sent,                   \* what output_server.send_message was given
    received,               \* history: every message returned by a poll
    replied,                \* history: for each sent image, the index in received
    stages,                 \* history: the stages run for the current message
    linear_data,            \* the argument and result of a direct scan_convert call
    converted

tables == <<scanconversion_config, x_cart, y_cart, vertices, weights, mask_array,
            erosion_size>>

frame_locals == <<orig_img_size, image, low_res_masks, masks>>

history == <<received, replied, stages>>

direct == <<linear_data, converted>>

vars == <<config_file, pc, error, tables, messages, frame_locals, sent, history,
          direct>>

\* The index in received of the message the loop body is at.
Current == Len(received) - Len(messages) + 1

InitLocals ==
    /\ error = None
    /\ scanconversion_config = None
    /\ x_cart = None
    /\ y_cart = None
    /\ vertices = None
    /\ weights = None
    /\ mask_array = None
    /\ erosion_size = None
    /\ messages = <<>>
    /\ orig_img_size = None
    /\ image = None
    /\ low_res_masks = None
    /\ masks = None
    /\ sent = <<>>
    /\ received = <<>>
    /\ replied = <<>>
    /\ stages = <<>>
    /\ linear_data = None
    /\ converted = None

Init ==
    /\ config_file \in ClientConfigFiles
    /\ pc = "load"
    /\ InitLocals

\* ------------------------------------------------------------- run_client

\* Lines 274-292: `if args.scanconversion_config:` and what follows.
LoadConfig ==
    /\ pc = "load"
    /\ LET loaded == load_scan_conversion(config_file)
       IN  IF config_file = None
           THEN /\ pc' = "poll"
                /\ UNCHANGED <<error, tables>>
           ELSE IF loaded.ok
           THEN /\ pc' = "poll"
                /\ scanconversion_config' = loaded.scanconversion_config
                /\ x_cart' = loaded.x_cart
                /\ y_cart' = loaded.y_cart
                /\ vertices' = loaded.vertices
                /\ weights' = loaded.weights
                /\ mask_array' = loaded.mask_array
                /\ erosion_size' = loaded.erosion_size
                /\ UNCHANGED error
           ELSE /\ pc' = "crashed"
                /\ error' = loaded.error
                /\ UNCHANGED tables
    /\ UNCHANGED <<config_file, messages, frame_locals, sent, history, direct>>

\* Line 324: messages = input_client.get_latest_messages().
PollMessages ==
    /\ pc = "poll"
    /\ \E batch \in MessageLists(MaxMessages - Len(received)) :
          /\ messages' = batch
          /\ received' = received \o batch
    /\ pc' = "dispatch"
    /\ UNCHANGED <<config_file, error, tables, frame_locals, sent, replied, stages,
                   direct>>

\* Line 326: the message is taken for an image message by its device name.
IsInputMessage(message) == message.device_name = InputDeviceName

\* Lines 326-342: the device name matches; message.image is read (a message
\* without an image raises AttributeError) and preprocessed.
Preprocess ==
    /\ pc = "dispatch"
    /\ messages # <<>>
    /\ IsInputMessage(Head(messages))
    /\ IF "image" \in DOMAIN Head(messages)
       THEN /\ orig_img_size' = <<Rows(Head(messages).image), Cols(Head(messages).image)>>
            /\ image' = preprocess_input(Head(messages).image, ModelImageSize,
                                         scanconversion_config, x_cart, y_cart)
            /\ stages' = <<"preprocess">>
            /\ pc' = "inference"
            /\ UNCHANGED error
       ELSE /\ pc' = "crashed"
            /\ error' = "AttributeError"
            /\ UNCHANGED <<orig_img_size, image, stages>>
    /\ UNCHANGED <<config_file, tables, messages, low_res_masks, masks, sent, received,
                   replied, direct>>

\* Lines 344-350: the image encoder and prompt_and_decoder, a function of the
\* network's weights that is not modelled: any of the model's outputs.
Inference ==
    /\ pc = "inference"
    /\ low_res_masks' \in ModelOutputs
    /\ stages' = Append(stages, "inference")
    /\ pc' = "postprocess"
    /\ UNCHANGED <<config_file, error, tables, messages, orig_img_size, image, masks,
                   sent, received, replied, direct>>

\* Lines 352-358: postprocess_masks.
Postprocess ==
    /\ pc = "postprocess"
    /\ LET result == postprocess_masks(low_res_masks, ModelImageSize, orig_img_size,
                                       scanconversion_config, vertices, weights,
                                       mask_array)
       IN  /\ mask_array' = result.mask_array
           /\ IF result.ok
              THEN /\ masks' = result.masks
                   /\ stages' = Append(stages, "postprocess")
                   /\ pc' = "send"
                   /\ UNCHANGED error
              ELSE /\ pc' = "crashed"
                   /\ error' = result.error
                   /\ UNCHANGED <<masks, stages>>
    /\ UNCHANGED <<config_file, scanconversion_config, x_cart, y_cart, vertices, weights,
                   erosion_size, messages, orig_img_size, image, low_res_masks, sent,
                   received, replied, direct>>

\* Mutant: a prediction that is zero everywhere is not sent.
ImageMessagesSentIfAny(prediction) ==
    IF \A i \in DOMAIN prediction : \A j \in DOMAIN prediction[i] : prediction[i][j] = 0
    THEN <<>>
    ELSE <<[message_type |-> "IMAGE", device_name |-> OutputDeviceName,
            image |-> prediction]>>

\* Lines 360-361: what the loop body sends for a processed frame, the
\* prediction under the output device name.
ImageMessagesSent(prediction) ==
    <<[message_type |-> "IMAGE", device_name |-> OutputDeviceName, image |-> prediction]>>

SendImage ==
    /\ pc = "send"
    /\ sent' = sent \o ImageMessagesSent(masks)
    /\ replied' = Append(replied, Current)
    /\ stages' = Append(stages, "send")
    /\ pc' = "transform"
    /\ UNCHANGED <<config_file, error, tables, messages, frame_locals, received, direct>>

\* Line 326 false: the loop body goes on to line 366.
SkipImage ==
    /\ pc = "dispatch"
    /\ messages # <<>>
    /\ ~IsInputMessage(Head(messages))
    /\ stages' = <<>>
    /\ pc' = "transform"
    /\ UNCHANGED <<config_file, error, tables, messages, frame_locals, sent, received,
                   replied, direct>>

IsImageTransform(message) ==
    message.message_type = "TRANSFORM" /\ ContainsImage(message.device_name)

\* Lines 366-370: an image transform is sent on under the renamed device, and
\* the for loop takes the next message.
ForwardTransform ==
    /\ pc = "transform"
    /\ IsImageTransform(Head(messages))
    /\ sent' = Append(sent, [message_type |-> "TRANSFORM",
                             device_name |-> ReplaceImagePred(Head(messages).device_name),
                             matrix |-> Head(messages).matrix])
    /\ messages' = Tail(messages)
    /\ stages' = <<>>
    /\ pc' = "dispatch"
    /\ UNCHANGED <<config_file, error, tables, frame_locals, received, replied, direct>>

\* Line 366 false: the for loop takes the next message.
NextMessage ==
    /\ pc = "transform"
    /\ ~IsImageTransform(Head(messages))
    /\ messages' = Tail(messages)
    /\ stages' = <<>>
    /\ pc' = "dispatch"
    /\ UNCHANGED <<config_file, error, tables, frame_locals, sent, received, replied,
                   direct>>

\* The for loop is through the list: back to the head of `while True`.
EndBatch ==
    /\ pc = "dispatch"
    /\ messages = <<>>
    /\ pc' = "poll"
    /\ UNCHANGED <<config_file, error, tables, messages, frame_locals, sent, history,
                   direct>>

Next ==
    \/ LoadConfig
    \/ PollMessages
    \/ Preprocess
    \/ Inference
    \/ Postprocess
    \/ SendImage
    \/ SkipImage
    \/ ForwardTransform
    \/ NextMessage
    \/ EndBatch

Spec == Init /\ [][Next]_vars

\* ------------------------------------- the geometry functions, called directly

InitGeom ==
    /\ config_file \in GeomConfigs
    /\ pc = "build"
    /\ InitLocals

\* x_cart, y_cart = scan_conversion_inverse(cfg); vertices, weights =
\* scan_interpolation_weights(cfg); mask_array = curvilinear_mask(cfg).
BuildTables ==
    /\ pc = "build"
    /\ LET loaded == load_scan_conversion(config_file)
       IN  IF loaded.ok
           THEN /\ pc' = "built"
                /\ scanconversion_config' = loaded.scanconversion_config
                /\ x_cart' = loaded.x_cart
                /\ y_cart' = loaded.y_cart
                /\ vertices' = loaded.vertices
                /\ weights' = loaded.weights
                /\ mask_array' = loaded.mask_array
                /\ erosion_size' = loaded.erosion_size
                /\ UNCHANGED error
           ELSE /\ pc' = "crashed"
                /\ error' = loaded.error
                /\ UNCHANGED tables
    /\ UNCHANGED <<config_file, messages, frame_locals, sent, history, direct>>

\* scan_convert(linear_data, cfg, vertices, weights) on an array of the caller.
CallScanConvert ==
    /\ pc = "built"
    /\ \E data \in LinearInputs(scanconversion_config.num_lines,
                                scanconversion_config.num_samples_along_lines) :
          /\ linear_data' = data
          /\ converted' = scan_convert(data, scanconversion_config, vertices, weights)
    /\ pc' = "converted"
    /\ UNCHANGED <<config_file, error, tables, messages, frame_locals, sent, history>>

NextGeom ==
    \/ BuildTables
    \/ CallScanConvert

SpecGeom == InitGeom /\ [][NextGeom]_vars

\* ------------------------------------------------------------------ claims

\* The invariant the specification states for a ScanGeometryConfig.
ValidGeometry(cfg) ==
    /\ cfg.radius_end_pixels > cfg.radius_start_pixels
    /\ cfg.radius_start_pixels >= 0
    /\ cfg.angle_max_degrees > cfg.angle_min_degrees
    /\ cfg.curvilinear_image_size > 0

\* The output pixels find_simplex places outside the convex hull of the sample
\* grid the tables were built from.
OutOfHullPixels ==
    LET cfg == scanconversion_config
        pts == SamplePoints(x_cart, y_cart, cfg.num_lines, cfg.num_samples_along_lines)
        simplices == DelaunaySimplices(pts, cfg.num_lines * cfg.num_samples_along_lines)
    IN  {q \in PixelIndices(cfg.curvilinear_image_size) :
            find_simplex(pts, simplices, GridPoint(q, cfg.curvilinear_image_size)) = -1}

MaskAt(q) ==
    mask_array[q \div scanconversion_config.curvilinear_image_size]
              [q % scanconversion_config.curvilinear_image_size]

\* What the claim C1 says the network is handed for a frame: the frame sampled
\* at (x_cart, y_cart) with order 1 and fill value 0, divided by 255, resized.
ResampledInput(frame) ==
    LET resampled == map_coordinates(frame, x_cart, y_cart)
        scaled == [i \in DOMAIN resampled |-> [j \in DOMAIN resampled[i] |->
                      [num |-> resampled[i][j], den |-> 255]]]
    IN  InterpolateNearest(scaled, ModelImageSize, ModelImageSize)

\* C1: with a scan-conversion config, the input handed to the network is the
\* received frame sampled at the sample grid (so frames that differ at a sampled
\* location give different inputs).
C1_InputIsResampledFrame ==
    (pc = "inference" /\ scanconversion_config # None)
        => image = ResampledInput(Head(messages).image)

\* C2: for a valid config, every output pixel outside the convex hull of the
\* sample grid (find_simplex = -1) has mask value 0.
C2_MaskExcludesOutOfHull ==
    (pc = "built" /\ ValidGeometry(scanconversion_config))
        => \A q \in OutOfHullPixels : MaskAt(q) = 0

\* The ascending sequence of the indices in 1 .. n that are in the set S.
Ascending(n, S) == SelectSeq([i \in 1 .. n |-> i], LAMBDA i : i \in S)

\* How many messages of received the loop is through with as far as the image
\* branch goes: those before the current one, and the current one once its
\* image branch has ended (by a send, by the branch not being taken, or by an
\* exception, after which nothing is sent any more).
Through ==
    IF pc \in {"transform", "crashed"} /\ messages # <<>> THEN Current ELSE Current - 1

SentImages == SelectSeq(sent, LAMBDA m : m.message_type = "IMAGE")

StageOrder == <<"preprocess", "inference", "postprocess", "send">>

\* The image messages are the replies, each under the output device name, and
\* the stages of the message being answered ran in order.
RepliesWellFormed ==
    /\ Len(SentImages) = Len(replied)
    /\ \A i \in 1 .. Len(SentImages) : SentImages[i].device_name = OutputDeviceName
    /\ stages = SubSeq(StageOrder, 1, Len(stages))
    /\ pc = "inference" => stages = SubSeq(StageOrder, 1, 1)
    /\ pc = "postprocess" => stages = SubSeq(StageOrder, 1, 2)
    /\ pc = "send" => stages = SubSeq(StageOrder, 1, 3)
    /\ (replied # <<>> /\ replied[Len(replied)] = Current) = (stages = StageOrder)

HasInputName(message) == message.device_name = InputDeviceName

IsProcessableFrame(message) ==
    /\ message.device_name = InputDeviceName
    /\ "image" \in DOMAIN message
    /\ \/ config_file = None
       \/ /\ Rows(message.image) = config_file.curvilinear_image_size
          /\ Cols(message.image) = config_file.curvilinear_image_size

C4_ShapeMismatchFails ==
    (pc = "converted"
       /\ <<Rows(linear_data), Cols(linear_data)>> #
             <<scanconversion_config.num_lines,
               scanconversion_config.num_samples_along_lines>>)
        => ~converted.ok

\* C5: a config whose geometry is out of range is rejected at load: the message
\* loop is never entered.
C5_InvalidGeometryRejected ==
    (config_file # None /\ RequiredKeys \subseteq DOMAIN config_file
       /\ ~ValidGeometry(config_file))
        => (pc \in {"load", "crashed"} /\ received = <<>>)

\* C6: when a required key is missing, run_client fails with KeyError during
\* the load, before a message is polled or a frame processed.
C6_MissingKeyFailsAtLoad ==
    (config_file # None /\ ~(RequiredKeys \subseteq DOMAIN config_file))
        => /\ pc \in {"load", "crashed"}
           /\ pc = "crashed" => error = "KeyError"
           /\ received = <<>>
           /\ sent = <<>>
           /\ image = None
           /\ mask_array = None

C6_Witness ==
    /\ pc = "crashed"
    /\ error = "KeyError"
    /\ "curvilinear_image_size" \notin DOMAIN config_file

IsUniform(a, v) == \A r \in DOMAIN a : \A c \in DOMAIN a[r] : a[r][c] = v

\* C7: scan_convert of data that is V everywhere is V at every in-hull output
\* pixel, and the three weights of an in-hull pixel sum to 1.
C7_ConstantPreserved ==
    (pc = "converted" /\ converted.ok /\ IsUniform(linear_data, linear_data[0][0]))
        => \A q \in PixelIndices(scanconversion_config.curvilinear_image_size)
                      \ OutOfHullPixels :
              LET size == scanconversion_config.curvilinear_image_size
                  out == converted.image[q \div size][q % size]
              IN  /\ out.num = linear_data[0][0] * out.den
                  /\ weights[q].num[1] + weights[q].num[2] + weights[q].num[3]
                        = weights[q].den
                  /\ weights[q].den > 0

C7_Witness ==
    /\ pc = "converted"
    /\ converted.ok
    /\ IsUniform(linear_data, 7)
    /\ ValidGeometry(scanconversion_config)
    /\ \E q \in PixelIndices(scanconversion_config.curvilinear_image_size) :
          /\ q \notin OutOfHullPixels
          /\ weights[q].num[1] > 0
          /\ weights[q].num[2] > 0
          /\ weights[q].num[3] > 0

Border(size) ==
    {rc \in (0 .. size - 1) \X (0 .. size - 1) :
        rc[1] = 0 \/ rc[2] = 0 \/ rc[1] = size - 1 \/ rc[2] = size - 1}

\* C8: the mask curvilinear_mask returns has no 1 on its outermost rows and
\* columns.
C8_BorderIsZero ==
    mask_array # None
        => \A rc \in Border(Rows(mask_array)) : mask_array[rc[1]][rc[2]] = 0

\* A mask that kept pixels through an erosion with a 2 x 2 or larger element,
\* from a sector that reaches the first row of the image.
C8_Witness ==
    /\ mask_array # None
    /\ erosion_size >= 2
    /\ config_file.center_coordinate_pixel[1] = 0
    /\ \E r \in DOMAIN mask_array : \E c \in DOMAIN mask_array[r] : mask_array[r][c] = 1

\* C9: the sample grid, the interpolation table and the mask are set by the
\* load and changed by no step of the message loop.
C9_TablesFixedAfterLoad ==
    [][pc # "load" =>
          UNCHANGED <<scanconversion_config, x_cart, y_cart, vertices, weights,
                      mask_array>>]_vars

\* A loaded mask with a 1 in it, after a frame and a transform were answered.
C9_Witness ==
    /\ mask_array # None
    /\ \E r \in DOMAIN mask_array : \E c \in DOMAIN mask_array[r] : mask_array[r][c] = 1
    /\ \E i \in 1 .. Len(sent) : sent[i].message_type = "TRANSFORM"
    /\ \E i \in 1 .. Len(sent) :
          /\ sent[i].message_type = "IMAGE"
          /\ \E r \in DOMAIN sent[i].image : \E c \in DOMAIN sent[i].image[r] :
                sent[i].image[r][c] = 255
    /\ pc = "poll"

\* round(0.1 * size): the nearest integer, a tie to the even one.
RoundTenth(size) ==
    LET q == size \div 10
        r == size % 10
    IN  IF r < 5 \/ (r = 5 /\ q % 2 = 0) THEN q ELSE q + 1

\* C10 as stated: the side of the structuring element is round(0.1 * size).
C10_ErosionSideRounded ==
    (pc = "built")
        => erosion_size = RoundTenth(scanconversion_config.curvilinear_image_size)

\* C10 amended: the side of the structuring element handed to the erosion is
\* 0.1 * size truncated to an integer: side <= size / 10 < side + 1.
C10_ErosionSideTruncated ==
    (pc = "built")
        => /\ 10 * erosion_size <= scanconversion_config.curvilinear_image_size
           /\ scanconversion_config.curvilinear_image_size < 10 * erosion_size + 10

C10_Witness ==
    /\ pc = "built"
    /\ scanconversion_config.curvilinear_image_size % 10 > 5
    /\ erosion_size >= 1

====
